---- MODULE Spec2Model ----
(***************************************************************************)
(* State-machine model of the student-dropout agent-based simulation:      *)
(* SchoolModel (school_model.py), StudentAgent (student_agent.py), the     *)
(* trial loop of run_simulation (run.py) and the parameters passed by      *)
(* run_and_analyze_abm (app.py).                                           *)
(*                                                                         *)
(* Number representation.  Parameters given as probabilities               *)
(* (rewiring_prob, base_dropout_rate, peer_influence_weight) and uniform   *)
(* draws are integers in thousandths (0.001 is 1, 1.0 is 1000).            *)
(* Performance scores and performance_volatility are integers.  p_drop     *)
(* and the dropout rates are doubles: the exact value of the expression    *)
(* together with the side on which the floating-point evaluation has left  *)
(* it (off = -1 below, 0 on, 1 above the double nearest the exact value);  *)
(* the side is the computed one where the model knows it and any of the    *)
(* three otherwise.                                                        *)
(*                                                                         *)
(* Library behaviour (networkx watts_strogatz_graph, numpy clip / shuffle  *)
(* / normal / rand, mesa RandomActivation and DataCollector) is modelled   *)
(* at the call sites named in the comments; where releases of a library    *)
(* differ (the list mesa shuffles, the nodes of a network without edges)   *)
(* either behaviour can occur.                                             *)
(***************************************************************************)
EXTENDS Integers, Sequences, FiniteSets, TLC

\* ------------------------------------------------------------------ bounds
\* Largest N a caller passes to the constructor.
MaxN == 6
\* Number of step() calls a caller issues on one model (NUM_STEPS of a run).
MaxSteps == 2
\* Number of models run_simulation builds in a row (NUM_TRIALS of a run).
MaxTrials == 2
\* Number of step() calls issued on a model whose agent steps are observed.
MaxObservedSteps == 1

\* ------------------------------------------------------- program constants
LOW_SES == 0
MEDIUM_SES == 1
HIGH_SES == 2
PERFORMANCE_THRESHOLD == 60
INITIAL_PERFORMANCE_MEAN == 75
INITIAL_PERFORMANCE_STD == 10
\* 0.4, in thousandths
FINANCIAL_AID_EFFECTIVENESS == 400

VARIABLES
    pc,               \* where the caller is: "new", "idle", "stepping", "failed", "done", "returned"
    params,           \* the constructor arguments the caller passes
    shuffle_in_place, \* the installed mesa shuffles the schedule's own list
    schedule,         \* model.schedule: the agent ids in the order the scheduler holds
    random,           \* model.random: number of shuffles drawn from the seeded stream
    running,          \* model.running
    n_agents,         \* model.n_agents
    steps,            \* model.steps
    G,                \* model.G: adjacency of the network, node -> set of nodes
    agents,           \* model.schedule agents in creation order: id -> fields
    queue,            \* agents the running schedule.step() has still to activate
    invoked,          \* id -> number of StudentAgent.step calls in the current round
    model_vars,       \* datacollector.model_vars: one record per collect()
    round_metrics,    \* reporter values observed when each schedule.step() returned
    error,            \* exception raised to the caller, "none" if none
    all_trials_data,  \* run_simulation: the dataframes of the finished trials
    result,           \* run_simulation: the dataframe it returns
    step_locals       \* local values of the latest StudentAgent.step, where observed

vars == <<pc, params, shuffle_in_place, schedule, random, running, n_agents, steps,
          G, agents, queue, invoked, model_vars, round_metrics, error,
          all_trials_data, result, step_locals>>

\* --------------------------------------------------------------- rationals
RECURSIVE GCD(_, _)
GCD(a, b) == IF b = 0 THEN a ELSE GCD(b, a % b)

Abs(x) == IF x < 0 THEN -x ELSE x

\* n/d in lowest terms with a positive denominator (d # 0).
Rat(n, d) ==
    LET g == GCD(Abs(n), Abs(d))
        s == IF d < 0 THEN -1 ELSE 1
    IN  [num |-> s * (n \div g), den |-> s * (d \div g)]

RatAdd(a, b) == Rat(a.num * b.den + b.num * a.den, a.den * b.den)
RatMul(a, b) == Rat(a.num * b.num, a.den * b.den)
RatLess(a, b) == a.num * b.den < b.num * a.den
RatLeq(a, b) == a.num * b.den <= b.num * a.den
Zero == Rat(0, 1)

\* The value is a double without rounding: its denominator is a power of two.
Dyadic(r) == r.den \in {1, 2, 4, 8, 16, 32, 64, 128, 256, 512, 1024}

\* The outcomes of the roundings of a double computation: the computed double
\* lies below (-1), on (0) or above (1) the double nearest to the exact value.
Roundings == {-1, 0, 1}

\* A double: the exact value of the expression and the side its computed
\* value lies on.
Double(r, off) == [num |-> r.num, den |-> r.den, off |-> off]

\* The exact value a double stands for.
Exact(d) == [num |-> d.num, den |-> d.den]

\* a < b on doubles.
DoubleLess(a, b) ==
    \/ RatLess(a, b)
    \/ Exact(a) = Exact(b) /\ a.off < b.off

\* a <= b on doubles.
DoubleLeq(a, b) == ~DoubleLess(b, a)

\* ------------------------------------------------------------ small helpers
Min(a, b) == IF a < b THEN a ELSE b
Max(a, b) == IF a > b THEN a ELSE b

\* Clip without the clamp.
Clip_unclamped(x, a_min, a_max) == x

\* numpy.clip(x, a_min, a_max)
Clip(x, a_min, a_max) == Min(Max(x, a_min), a_max)

Range(s) == {s[i] : i \in DOMAIN s}
Rotate(s) == IF s = <<>> THEN s ELSE Append(Tail(s), Head(s))
Repeat(x, n) == [i \in 1..n |-> x]
Occurrences(s, x) == Cardinality({i \in DOMAIN s : s[i] = x})

\* --------------------------------------------------------- random sources
\* Uniform draws in [0,1), in thousandths: random.random() and numpy.random.rand().
UniformDraws == {0, 500, 999}

\* numpy.random.normal(loc, scale): scale 0 returns loc; otherwise any real,
\* sampled four standard deviations either side of loc.
Normal(loc, scale) ==
    IF scale = 0 THEN {loc} ELSE {loc - 4 * scale, loc + 4 * scale}

\* numpy.random.shuffle(lst), two sampled outcomes: the list as built and
\* the list with its first item moved to the end.
SampledShuffles(lst) == {lst, Rotate(lst)}

\* random.Random(42).shuffle(x) for the first four shuffles of a new
\* generator, by len(x): Random42Shuffles[len(x) + 1][k] lists, for each
\* position of the k-th result, the position of x it is taken from.
Random42Shuffles ==
    << << <<>>, <<>>, <<>>, <<>> >>,
       << <<0>>, <<0>>, <<0>>, <<0>> >>,
       << <<1, 0>>, <<1, 0>>, <<0, 1>>, <<1, 0>> >>,
       << <<1, 0, 2>>, <<2, 1, 0>>, <<1, 2, 0>>, <<1, 2, 0>> >>,
       << <<2, 1, 3, 0>>, <<3, 2, 0, 1>>, <<1, 3, 2, 0>>, <<1, 2, 0, 3>> >>,
       << <<3, 1, 2, 4, 0>>, <<3, 2, 0, 4, 1>>, <<3, 1, 2, 0, 4>>,
          <<1, 2, 3, 4, 0>> >>,
       << <<3, 1, 2, 4, 0, 5>>, <<3, 0, 2, 4, 5, 1>>, <<3, 1, 2, 0, 4, 5>>,
          <<1, 2, 3, 4, 5, 0>> >>,
       << <<1, 3, 4, 2, 6, 0, 5>>, <<3, 6, 2, 4, 0, 5, 1>>, <<3, 2, 4, 1, 5, 6, 0>>,
          <<2, 5, 0, 3, 6, 1, 4>> >>,
       << <<3, 4, 6, 7, 2, 5, 0, 1>>, <<3, 7, 2, 0, 4, 6, 5, 1>>,
          <<3, 5, 2, 4, 1, 6, 7, 0>>, <<2, 1, 0, 7, 4, 6, 5, 3>> >> >>

\* model.random.shuffle(x) as the shuffle number drawn + 1 of the generator
\* seeded with 42.
SeededShuffle(drawn, x) ==
    LET from == Random42Shuffles[Len(x) + 1][drawn + 1]
    IN  [i \in 1..Len(x) |-> x[from[i] + 1]]

\* ----------------------------------------------------------------- network
Nodes(n) == 0..(n - 1)

\* nx.complete_graph(n)
complete_graph(n) == [u \in Nodes(n) |-> Nodes(n) \ {u}]

has_edge(adj, u, v) == u \in DOMAIN adj /\ v \in adj[u]

\* G.add_edge(u, v): the nodes are added when the graph does not hold them.
add_edge(adj, u, v) ==
    [x \in DOMAIN adj \cup {u, v} |->
        LET old == IF x \in DOMAIN adj THEN adj[x] ELSE {}
        IN  IF x = u /\ x = v THEN old \cup {u}
            ELSE IF x = u THEN old \cup {v}
            ELSE IF x = v THEN old \cup {u}
            ELSE old]

\* G.remove_edge(u, v): raises NetworkXError when the edge is not in the graph.
remove_edge(adj, u, v) ==
    IF u \notin DOMAIN adj \/ ~has_edge(adj, u, v) THEN "NetworkXError"
    ELSE [x \in DOMAIN adj |->
             IF x = u THEN adj[x] \ {v}
             ELSE IF x = v THEN adj[x] \ {u}
             ELSE adj[x]]

\* Number of u's neighbours (G.degree(u) of a graph without self-loops).
degree(adj, u) == Cardinality(adj[u])

\* The ring lattice: node u joined to its k // 2 successors on the ring.
RECURSIVE ring_lattice(_, _, _, _)
ring_lattice(adj, n, k, i) ==
    IF i > (k \div 2) * n THEN adj
    ELSE LET j == ((i - 1) \div n) + 1
             u == (i - 1) % n
         IN  ring_lattice(add_edge(adj, u, (u + j) % n), n, k, i + 1)

\* Outcomes of the rewiring of lattice edge (u, v), which is in the graph: no
\* earlier rewiring removes it.  It is kept when
\* random() >= p.  Otherwise w is drawn from the nodes until it is neither u
\* nor adjacent to u, and the edge is moved to (u, w); a rejected draw ends
\* the attempt, the edge kept, once u is adjacent to every other node.
rewire_edge(adj, n, p, u, v) ==
    LET valid == {w \in Nodes(n) : w # u /\ ~has_edge(adj, u, w)}
        kept == IF \E r \in UniformDraws : ~(r < p) THEN {adj} ELSE {}
        moved == IF \E r \in UniformDraws : r < p
                 THEN {add_edge(remove_edge(adj, u, v), u, w) : w \in valid}
                      \cup (IF degree(adj, u) >= n - 1 THEN {adj} ELSE {})
                 ELSE {}
    IN  kept \cup moved

RECURSIVE rewire(_, _, _, _, _)
rewire(adj, n, k, p, i) ==
    IF i > (k \div 2) * n THEN {adj}
    ELSE LET j == ((i - 1) \div n) + 1
             u == (i - 1) % n
         IN  UNION {rewire(a, n, k, p, i + 1) :
                        a \in rewire_edge(adj, n, p, u, (u + j) % n)}

\* The graph watts_strogatz_graph starts from: empty_graph(n), the n nodes
\* without edges, in networkx >= 3.4; nx.Graph(), without nodes, in earlier
\* releases, where the nodes come in with the lattice edges.
initial_graph(n, nodes_with_edges) ==
    [u \in IF nodes_with_edges THEN {} ELSE Nodes(n) |-> {}]

\* nx.watts_strogatz_graph(n, k, p) for k <= n: the graphs it can return,
\* under either release of networkx.
watts_strogatz_graph(n, k, p) ==
    IF k = n THEN {complete_graph(n)}
    ELSE UNION {rewire(ring_lattice(initial_graph(n, nodes_with_edges), n, k, 1),
                       n, k, p, 1) : nodes_with_edges \in BOOLEAN}

\* ------------------------------------------------------------------ agents
\* The SES list make_agents builds before shuffling it: int(N * 0.4) Low,
\* int(N * 0.4) Medium, int(N * 0.2) High.
ses_distribution(n) ==
    Repeat(LOW_SES, (n * 4) \div 10) \o Repeat(MEDIUM_SES, (n * 4) \div 10)
        \o Repeat(HIGH_SES, (n * 2) \div 10)

\* StudentAgent.__init__
StudentAgent(initial_performance, ses) ==
    [performance |-> initial_performance, ses |-> ses, status |-> "Attending"]

\* The agents make_agents creates, one per node of the network, from the
\* shuffled list and the normal draws (the nodes are 0 .. n - 1).
make_agents(n, ses_list, draws) ==
    [i \in Nodes(n) |-> StudentAgent(Clip(draws[i], 50, 95), ses_list[i + 1])]

\* grid.get_neighbors(pos, include_center=False), as node ids
get_neighbors(adj, pos) == adj[pos] \ {pos}

\* peer_influence_score dividing by the number of agents of the model.
peer_influence_score_over_population(ag, neighbor_nodes) ==
    IF neighbor_nodes = {} THEN Zero
    ELSE Rat(Cardinality({v \in neighbor_nodes : ag[v].status = "Dropped Out"}),
             Cardinality(DOMAIN ag))

\* Fraction of the neighbours whose status is 'Dropped Out', 0 without neighbours.
peer_influence_score(ag, neighbor_nodes) ==
    IF neighbor_nodes = {} THEN Zero
    ELSE Rat(Cardinality({v \in neighbor_nodes : ag[v].status = "Dropped Out"}),
             Cardinality(neighbor_nodes))

\* performance_risk without the floor at 0.
performance_risk_unfloored(performance) ==
    Rat(PERFORMANCE_THRESHOLD - performance, PERFORMANCE_THRESHOLD)

\* max(0, PERFORMANCE_THRESHOLD - performance) / PERFORMANCE_THRESHOLD
performance_risk(performance) ==
    Rat(Max(0, PERFORMANCE_THRESHOLD - performance), PERFORMANCE_THRESHOLD)

\* The float arithmetic of p_drop yields the double nearest to the exact
\* value: the sums and products are without rounding when every operand is a
\* dyadic rational or when both risk terms are 0, and the product with
\* 1 - FINANCIAL_AID_EFFECTIVENESS (0.6) is when that sum is 0.
p_drop_unrounded(prm, performance, score, aided) ==
    LET base == Rat(prm.base_dropout_rate, 1000)
        weight == Rat(prm.peer_influence_weight, 1000)
        rest == Rat(1000 - prm.peer_influence_weight, 1000)
        risk == performance_risk(performance)
        no_own == risk = Zero \/ prm.peer_influence_weight = 1000
        no_peers == score = Zero \/ prm.peer_influence_weight = 0
        combined == RatAdd(RatAdd(base, RatMul(risk, rest)), RatMul(score, weight))
    IN  /\ \/ no_own /\ no_peers
           \/ Dyadic(base) /\ Dyadic(weight) /\ Dyadic(score) /\ Dyadic(risk)
        /\ aided => combined = Zero

\* p_drop with the financial-aid discount given to every tier.
p_drop_aid_for_all(prm, performance, ses, score, rounding) ==
    LET base == Rat(prm.base_dropout_rate, 1000)
        weight == Rat(prm.peer_influence_weight, 1000)
        rest == Rat(1000 - prm.peer_influence_weight, 1000)
        combined == RatAdd(RatAdd(base, RatMul(performance_risk(performance), rest)),
                           RatMul(score, weight))
        aided == prm.financial_aid_policy
        off == IF p_drop_unrounded(prm, performance, score, aided) THEN 0 ELSE rounding
    IN  IF aided
        THEN Double(RatMul(combined, Rat(1000 - FINANCIAL_AID_EFFECTIVENESS, 1000)), off)
        ELSE Double(combined, off)

\* p_drop of StudentAgent.step, the financial-aid discount included, as the
\* double the float arithmetic yields: the exact value of the expression and,
\* where the arithmetic rounds, the side `rounding` names.
p_drop(prm, performance, ses, score, rounding) ==
    LET base == Rat(prm.base_dropout_rate, 1000)
        weight == Rat(prm.peer_influence_weight, 1000)
        rest == Rat(1000 - prm.peer_influence_weight, 1000)
        combined == RatAdd(RatAdd(base, RatMul(performance_risk(performance), rest)),
                           RatMul(score, weight))
        aided == prm.financial_aid_policy /\ ses = LOW_SES
        off == IF p_drop_unrounded(prm, performance, score, aided) THEN 0 ELSE rounding
    IN  IF aided
        THEN Double(RatMul(combined, Rat(1000 - FINANCIAL_AID_EFFECTIVENESS, 1000)), off)
        ELSE Double(combined, off)

\* StudentAgent.step without the early return of a dropped-out agent.
StudentAgent_step_unguarded(ag, adj, prm, a, fluctuation, u, rounding) ==
    LET performance == Clip(ag[a].performance + fluctuation, 0, 100)
        score == peer_influence_score(ag, get_neighbors(adj, a))
        p == p_drop(prm, performance, ag[a].ses, score, rounding)
    IN  [ag EXCEPT ![a] = [performance |-> performance,
                           ses |-> @.ses,
                           status |-> IF DoubleLess(Double(Rat(u, 1000), 0), p)
                                      THEN "Dropped Out" ELSE @.status]]

\* StudentAgent.step of agent a with its two draws and the rounding of its
\* p_drop: the agents afterwards.
StudentAgent_step(ag, adj, prm, a, fluctuation, u, rounding) ==
    IF ag[a].status = "Dropped Out" THEN ag
    ELSE LET performance == Clip(ag[a].performance + fluctuation, 0, 100)
             score == peer_influence_score(ag, get_neighbors(adj, a))
             p == p_drop(prm, performance, ag[a].ses, score, rounding)
         IN  [ag EXCEPT ![a] = [performance |-> performance,
                                ses |-> @.ses,
                                status |-> IF DoubleLess(Double(Rat(u, 1000), 0), p)
                                           THEN "Dropped Out" ELSE @.status]]

\* No StudentAgent.step has been observed.
NoStep ==
    [agent |-> -1, drew |-> FALSE, fluctuation |-> 0, u |-> 0, score |-> Zero,
     p_drop |-> Double(Zero, 0)]

\* The local values of StudentAgent.step of agent a: the two draws, the
\* peer_influence_score and the p_drop it computes.  A dropped-out agent
\* returns before it draws or computes anything.
StudentAgent_step_locals(ag, adj, prm, a, fluctuation, u, rounding) ==
    IF ag[a].status = "Dropped Out" THEN [NoStep EXCEPT !.agent = a]
    ELSE LET performance == Clip(ag[a].performance + fluctuation, 0, 100)
             score == peer_influence_score(ag, get_neighbors(adj, a))
             p == p_drop(prm, performance, ag[a].ses, score, rounding)
         IN  [agent |-> a, drew |-> TRUE, fluctuation |-> fluctuation, u |-> u,
              score |-> score, p_drop |-> p]

\* ----------------------------------------------------------------- metrics
\* sum(1 for a in schedule.agents[i:] if a.status == 'Dropped Out')
RECURSIVE dropout_count(_, _)
dropout_count(ag, i) ==
    IF i \notin DOMAIN ag THEN 0
    ELSE (IF ag[i].status = "Dropped Out" THEN 1 ELSE 0) + dropout_count(ag, i + 1)

\* (count / n) * 100 in doubles for n up to 10: RateSides[n][count + 1] is the
\* side of the double nearest to 100 count / n the result lies on (for 1 of 3,
\* 33.33333333333333 lies below 33.333333333333336).
RateSides ==
    << <<0, 0>>,
       <<0, 0, 0>>,
       <<0, -1, -1, 0>>,
       <<0, 0, 0, 0, 0>>,
       <<0, 0, 0, 0, 0, 0>>,
       <<0, -1, -1, 0, -1, 1, 0>>,
       <<0, -1, -1, 0, -1, 0, 0, 0>>,
       <<0, 0, 0, 0, 0, 0, 0, 0, 0>>,
       <<0, 0, 0, -1, 0, 0, -1, 1, 0, 0>>,
       <<0, 0, 0, 0, 0, 0, 0, 0, 0, 0, 0>> >>

\* The division and the product of (count / n) * 100 are without rounding.
rate_unrounded(count, n) ==
    count = 0 \/ count = n \/ Dyadic(Rat(count, n))

\* The sides (count / n) * 100 can be rounded to: the one of RateSides, none
\* where the arithmetic is exact, any of the three otherwise.
RateRoundings(count, n) ==
    IF n <= Len(RateSides) /\ count <= n THEN {RateSides[n][count + 1]}
    ELSE IF rate_unrounded(count, n) THEN {0}
    ELSE Roundings

\* (count / n) * 100 as the double the float arithmetic yields (n > 0): the
\* exact value and its side, `rounding` where RateRoundings leaves it open.
rate(count, n, rounding) ==
    Double(RatMul(Rat(count, n), Rat(100, 1)),
           IF n <= Len(RateSides) /\ count <= n THEN RateSides[n][count + 1]
           ELSE IF rate_unrounded(count, n) THEN 0
           ELSE rounding)

\* get_dropout_rate dividing by the number of agents still attending.
get_dropout_rate_of_attending(ag, n, rounding) ==
    LET attending == Cardinality({a \in DOMAIN ag : ag[a].status = "Attending"})
    IN  IF attending = 0 THEN Double(Rat(100, 1), 0)
        ELSE rate(dropout_count(ag, 0), attending, rounding)

\* SchoolModel.get_dropout_rate (n > 0)
get_dropout_rate(ag, n, rounding) == rate(dropout_count(ag, 0), n, rounding)

\* get_dropout_by_ses dividing by the whole population instead of the tier.
get_dropout_by_ses_of_all(ag, ses_level, rounding) ==
    LET ses_agents == {a \in DOMAIN ag : ag[a].ses = ses_level}
        dropped == {a \in ses_agents : ag[a].status = "Dropped Out"}
    IN  IF ses_agents = {} THEN Double(Zero, 0)
        ELSE rate(Cardinality(dropped), Cardinality(DOMAIN ag), rounding)

\* SchoolModel.get_dropout_by_ses: 0 for a tier without agents.
get_dropout_by_ses(ag, ses_level, rounding) ==
    LET ses_agents == {a \in DOMAIN ag : ag[a].ses = ses_level}
        dropped == {a \in ses_agents : ag[a].status = "Dropped Out"}
    IN  IF ses_agents = {} THEN Double(Zero, 0)
        ELSE rate(Cardinality(dropped), Cardinality(ses_agents), rounding)

\* The roundings of the four rates of the model reporters, in the order
\* total, Low, Medium, High.
ReporterRoundings(ag, n) ==
    LET tier(t) == {a \in DOMAIN ag : ag[a].ses = t}
        sides(t) == IF tier(t) = {} THEN {0}
                    ELSE RateRoundings(Cardinality({a \in tier(t) :
                                                       ag[a].status = "Dropped Out"}),
                                       Cardinality(tier(t)))
    IN  RateRoundings(dropout_count(ag, 0), n) \X sides(LOW_SES)
            \X sides(MEDIUM_SES) \X sides(HIGH_SES)

\* The model reporters of setup_datacollector, evaluated on the model.
model_reporters(ag, n, prm, roundings) ==
    [total |-> get_dropout_rate(ag, n, roundings[1]),
     low |-> get_dropout_by_ses(ag, LOW_SES, roundings[2]),
     medium |-> get_dropout_by_ses(ag, MEDIUM_SES, roundings[3]),
     high |-> get_dropout_by_ses(ag, HIGH_SES, roundings[4]),
     aid |-> prm.financial_aid_policy,
     weight |-> prm.peer_influence_weight]

\* collect keeping only the newest record.
collect_overwriting(mv, ag, n, prm, roundings) ==
    <<model_reporters(ag, n, prm, roundings)>>

\* datacollector.collect(model)
collect(mv, ag, n, prm, roundings) ==
    Append(mv, model_reporters(ag, n, prm, roundings))

\* ------------------------------------------------------------------- state
Status == {"Attending", "Dropped Out"}

Doubles == [num : Int, den : Int, off : Roundings]

Rates == [total : Doubles, low : Doubles, medium : Doubles, high : Doubles,
          aid : BOOLEAN, weight : Int]

\* The fields of SchoolModel, StudentAgent and run_simulation the model holds.
TypeOK ==
    /\ pc \in {"new", "idle", "stepping", "failed", "done", "returned"}
    /\ error \in {"none", "NetworkXError", "IndexError"}
    /\ shuffle_in_place \in BOOLEAN
    /\ Range(schedule) = DOMAIN agents
    /\ random \in Nat
    /\ running \in BOOLEAN
    /\ n_agents \in Nat
    /\ steps \in Nat
    /\ \A u \in DOMAIN G : G[u] \subseteq DOMAIN G
    /\ \A a \in DOMAIN agents :
          /\ agents[a].performance \in Int
          /\ agents[a].ses \in {LOW_SES, MEDIUM_SES, HIGH_SES}
          /\ agents[a].status \in Status
    /\ Range(queue) \subseteq DOMAIN agents
    /\ \A a \in DOMAIN invoked : invoked[a] \in Nat
    /\ \A k \in DOMAIN model_vars : model_vars[k] \in Rates
    /\ \A k \in DOMAIN round_metrics : round_metrics[k] \in Rates
    /\ \A i \in DOMAIN all_trials_data :
          \A k \in DOMAIN all_trials_data[i] :
              /\ all_trials_data[i][k].row \in Rates
              /\ all_trials_data[i][k].Trial = i
    /\ step_locals.p_drop.off \in Roundings
    /\ step_locals.agent \in DOMAIN agents \cup {-1}
    /\ step_locals.drew \in BOOLEAN
    /\ step_locals.u \in UniformDraws

NoModel ==
    /\ random = 0
    /\ running = FALSE
    /\ n_agents = 0
    /\ steps = 0
    /\ G = <<>>
    /\ agents = <<>>
    /\ schedule = <<>>
    /\ queue = <<>>
    /\ invoked = <<>>
    /\ model_vars = <<>>
    /\ round_metrics = <<>>

InitWith(ParamSpace) ==
    /\ pc = "new"
    /\ params \in ParamSpace
    /\ shuffle_in_place \in BOOLEAN
    /\ error = "none"
    /\ all_trials_data = <<>>
    /\ result = <<>>
    /\ step_locals = NoStep
    /\ NoModel

\* The constructor raises e: no model is returned.
Raise(e) ==
    /\ pc' = "failed"
    /\ error' = e
    /\ UNCHANGED <<params, shuffle_in_place, schedule, random, running, n_agents,
                   steps, G, agents, queue, invoked, model_vars, round_metrics,
                   all_trials_data, result, step_locals>>

\* SchoolModel.__init__ with make_agents and setup_datacollector.  normals are
\* the draws numpy.random.normal may return for the initial performance.
\* make_agents creates one agent per node of the network and fails at the
\* first node the SES list has no entry for.
SchoolModel_init(normals) ==
    /\ pc = "new"
    /\ LET N == params.N
           k == params.k_degree
           lst == ses_distribution(N)
       IN  IF k > N THEN Raise("NetworkXError")
           ELSE \E g \in watts_strogatz_graph(N, k, params.rewiring_prob) :
                  LET nodes == Cardinality(DOMAIN g)
                  IN  IF Len(lst) < nodes THEN Raise("IndexError")
                      ELSE \E ses_list \in SampledShuffles(lst),
                              draws \in [Nodes(nodes) -> normals] :
                               /\ pc' = "idle"
                               /\ running' = TRUE
                               /\ n_agents' = N
                               /\ steps' = 0
                               /\ random' = 0
                               /\ G' = g
                               /\ agents' = make_agents(nodes, ses_list, draws)
                               /\ schedule' = [i \in 1..nodes |-> i - 1]
                               /\ queue' = <<>>
                               /\ invoked' = [a \in Nodes(nodes) |-> 0]
                               /\ model_vars' = <<>>
                               /\ round_metrics' = <<>>
                               /\ UNCHANGED <<params, shuffle_in_place, error,
                                              all_trials_data, result, step_locals>>

InitialDraws == Normal(INITIAL_PERFORMANCE_MEAN, INITIAL_PERFORMANCE_STD)

Construct == SchoolModel_init(InitialDraws)

\* SchoolModel.step collecting after the agents have been activated.
step_order_collect_last == <<"schedule", "collect">>

\* The statements of SchoolModel.step after the counter, in program order.
step_order == <<"collect", "schedule">>

\* A schedule that holds only the agents still attending.
AgentIds_attending(ag) ==
    LET RECURSIVE pick(_)
        pick(i) == IF i \notin DOMAIN ag THEN <<>>
                   ELSE (IF ag[i].status = "Attending" THEN <<i>> ELSE <<>>) \o pick(i + 1)
    IN  pick(0)

\* The ids of the agents the schedule holds, in creation order.
AgentIds(ag) == [i \in 1..Cardinality(DOMAIN ag) |-> i - 1]

\* The list RandomActivation.step shuffles: the scheduler's own list, which
\* keeps the order the last shuffle left, when the installed mesa shuffles in
\* place (mesa >= 2.2); a new list of the agents in creation order otherwise.
ShuffledList(in_place, held, ag) ==
    IF in_place THEN held ELSE AgentIds(ag)

\* SchoolModel.step up to the first activation: the counter, the collection,
\* and the shuffle of RandomActivation.step.
SchoolModel_step ==
    /\ pc = "idle"
    /\ steps < MaxSteps
    /\ steps' = steps + 1
    /\ \E roundings \in ReporterRoundings(agents, n_agents) :
          model_vars' = IF step_order[1] = "collect"
                        THEN collect(model_vars, agents, n_agents, params, roundings)
                        ELSE model_vars
    /\ queue' = SeededShuffle(random, ShuffledList(shuffle_in_place, schedule, agents))
    /\ schedule' = IF shuffle_in_place THEN queue' ELSE schedule
    /\ random' = random + 1
    /\ invoked' = [a \in DOMAIN agents |-> 0]
    /\ pc' = "stepping"
    /\ UNCHANGED <<params, shuffle_in_place, running, n_agents, G, agents,
                   round_metrics, error, all_trials_data, result, step_locals>>

\* The draws StudentAgent.step of agent a makes, <<fluctuation, u>>: none for
\* a dropped-out agent, which returns first (one pair, which the step does
\* not read, stands for it).
StepDraws(ag, prm, a) ==
    LET draws == Normal(0, prm.performance_volatility) \X UniformDraws
    IN  IF ag[a].status = "Dropped Out" THEN {CHOOSE d \in draws : TRUE} ELSE draws

\* The sides the p_drop of the step of agent a can be rounded to.
StepRoundings(ag, adj, prm, a, fluctuation) ==
    IF ag[a].status = "Dropped Out" THEN {0}
    ELSE LET performance == Clip(ag[a].performance + fluctuation, 0, 100)
             score == peer_influence_score(ag, get_neighbors(adj, a))
             aided == prm.financial_aid_policy /\ ag[a].ses = LOW_SES
         IN  IF p_drop_unrounded(prm, performance, score, aided) THEN {0}
             ELSE Roundings

\* RandomActivation.step activates the next agent: StudentAgent.step with
\* its two draws and the rounding of its p_drop.
Activation(fluctuation, u, rounding) ==
    /\ pc = "stepping"
    /\ queue # <<>>
    /\ LET a == Head(queue)
       IN  /\ agents' = StudentAgent_step(agents, G, params, a, fluctuation, u, rounding)
           /\ invoked' = [invoked EXCEPT ![a] = @ + 1]
    /\ queue' = Tail(queue)
    /\ UNCHANGED <<pc, params, shuffle_in_place, schedule, random, running, n_agents,
                   steps, G, model_vars, round_metrics, error, all_trials_data, result>>

Activate ==
    /\ pc = "stepping"
    /\ queue # <<>>
    /\ \E d \in StepDraws(agents, params, Head(queue)) :
         \E rounding \in StepRoundings(agents, G, params, Head(queue), d[1]) :
            /\ Activation(d[1], d[2], rounding)
            /\ UNCHANGED step_locals

\* The same activation, the local values of the agent's step observed.
ActivateObserved ==
    /\ pc = "stepping"
    /\ queue # <<>>
    /\ \E d \in StepDraws(agents, params, Head(queue)) :
         \E rounding \in StepRoundings(agents, G, params, Head(queue), d[1]) :
            /\ Activation(d[1], d[2], rounding)
            /\ step_locals' = StudentAgent_step_locals(agents, G, params, Head(queue),
                                                       d[1], d[2], rounding)

\* schedule.step() and with it SchoolModel.step return.
StepReturn ==
    /\ pc = "stepping"
    /\ queue = <<>>
    /\ pc' = "idle"
    /\ \E roundings \in ReporterRoundings(agents, n_agents) :
          /\ round_metrics' = Append(round_metrics,
                                     model_reporters(agents, n_agents, params, roundings))
          /\ model_vars' = IF step_order[2] = "collect"
                           THEN collect(model_vars, agents, n_agents, params, roundings)
                           ELSE model_vars
    /\ UNCHANGED <<params, shuffle_in_place, schedule, random, running, n_agents,
                   steps, G, agents, queue, invoked, error, all_trials_data, result,
                   step_locals>>

\* The scenario run_simulation is called for.
scenario_name == "1_Baseline"

\* get_model_vars_dataframe() with the columns df['Trial'] = trial and
\* df['Scenario'] = scenario added to every row.
trial_dataframe(mv, trial, scenario) ==
    [k \in DOMAIN mv |-> [row |-> mv[k], Trial |-> trial, Scenario |-> scenario]]

\* pd.concat(frames): the rows of the frames one after another.
RECURSIVE concat(_)
concat(frames) ==
    IF frames = <<>> THEN <<>> ELSE Head(frames) \o concat(Tail(frames))

\* run_simulation: a trial has made its NUM_STEPS steps; its dataframe, with
\* the trial number i + 1 and the scenario name, is appended and the model is
\* dropped, the next trial constructing a new one.
TrialDone ==
    /\ pc = "idle"
    /\ steps = MaxSteps
    /\ Len(all_trials_data) < MaxTrials
    /\ all_trials_data' =
          Append(all_trials_data,
                 trial_dataframe(model_vars, Len(all_trials_data) + 1, scenario_name))
    /\ pc' = IF Len(all_trials_data) + 1 < MaxTrials THEN "new" ELSE "done"
    /\ random' = 0
    /\ running' = FALSE
    /\ n_agents' = 0
    /\ steps' = 0
    /\ G' = <<>>
    /\ agents' = <<>>
    /\ schedule' = <<>>
    /\ queue' = <<>>
    /\ invoked' = <<>>
    /\ model_vars' = <<>>
    /\ round_metrics' = <<>>
    /\ UNCHANGED <<params, shuffle_in_place, error, result, step_locals>>

\* run_simulation returns the dataframes of all trials combined into one.
run_simulation_return ==
    /\ pc = "done"
    /\ pc' = "returned"
    /\ result' = concat(all_trials_data)
    /\ UNCHANGED <<params, shuffle_in_place, schedule, random, running, n_agents,
                   steps, G, agents, queue, invoked, model_vars, round_metrics, error,
                   all_trials_data, step_locals>>

\* ------------------------------------------------------------ specifications
\* Constructor arguments of the main specification: every population size up
\* to MaxN on a ring of degree 2, without and with financial aid, and a
\* volatility that takes the performance to both ends of [0,100].
MainParams ==
    [N : 1..MaxN, k_degree : {2}, rewiring_prob : {0}, base_dropout_rate : {0},
     peer_influence_weight : {500}, performance_volatility : {25},
     financial_aid_policy : BOOLEAN]

Init == InitWith(MainParams)

Next == Construct \/ SchoolModel_step \/ Activate \/ StepReturn

Spec == Init /\ [][Next]_vars

\* Construction over the population sizes and degrees, with parameters
\* under which no agent drops out.
CtorParams ==
    [N : 1..MaxN, k_degree : 0..(MaxN + 1), rewiring_prob : {0},
     base_dropout_rate : {0}, peer_influence_weight : {1000},
     performance_volatility : {0}, financial_aid_policy : {FALSE}]

ConstructAny == SchoolModel_init({INITIAL_PERFORMANCE_MEAN})

InitCtor == InitWith(CtorParams)

NextCtor == ConstructAny \/ SchoolModel_step \/ Activate \/ StepReturn

SpecCtor == InitCtor /\ [][NextCtor]_vars

\* Network construction: populations whose SES split is integral, every
\* degree and every rewiring.
NetParams ==
    [N : {n \in 1..MaxN : Len(ses_distribution(n)) = n}, k_degree : 0..(MaxN + 1),
     rewiring_prob : {0, 200, 1000}, base_dropout_rate : {0},
     peer_influence_weight : {1000}, performance_volatility : {0},
     financial_aid_policy : {FALSE}]

InitNet == InitWith(NetParams)

SpecNet == InitNet /\ [][NextCtor]_vars

\* The trial loop of run_simulation on one scenario: the same parameters and
\* the same seed for every trial.
TrialParams ==
    [N : {5}, k_degree : {2}, rewiring_prob : {0}, base_dropout_rate : {0},
     peer_influence_weight : {500}, performance_volatility : {0},
     financial_aid_policy : {FALSE}]

ConstructTrial ==
    SchoolModel_init({INITIAL_PERFORMANCE_MEAN - 4 * INITIAL_PERFORMANCE_STD})

InitTrials == InitWith(TrialParams)

NextTrials ==
    \/ ConstructTrial
    \/ SchoolModel_step
    \/ Activate
    \/ StepReturn
    \/ TrialDone
    \/ run_simulation_return

SpecTrials == InitTrials /\ [][NextTrials]_vars

\* Constructor arguments for observing one agent's step.  The combinations
\* of peer_influence_weight and financial_aid_policy are those of the
\* scenarios of run_and_analyze_abm: a weight of 0.5 without and with
\* financial aid, and the weight of 1.5 it passes for a slider value of 1.0,
\* always without financial aid.  N, k_degree, base_dropout_rate and
\* performance_volatility are small stand-ins for the values it passes: two
\* neighbours (k_degree 2) or none (k_degree 0), and a volatility that moves
\* the performance across PERFORMANCE_THRESHOLD.
AgentParams ==
    [N : {5}, k_degree : {2}, rewiring_prob : {0}, base_dropout_rate : {0},
     peer_influence_weight : {500}, performance_volatility : {25},
     financial_aid_policy : BOOLEAN]
    \cup
    [N : {5}, k_degree : {2}, rewiring_prob : {0}, base_dropout_rate : {0},
     peer_influence_weight : {1500}, performance_volatility : {25},
     financial_aid_policy : {FALSE}]
    \cup
    [N : {5}, k_degree : {0}, rewiring_prob : {0}, base_dropout_rate : {0},
     peer_influence_weight : {500}, performance_volatility : {25},
     financial_aid_policy : {FALSE}]

InitAgent == InitWith(AgentParams)

\* SchoolModel.step called by a caller that issues MaxObservedSteps calls.
ObservedStep ==
    /\ steps < MaxObservedSteps
    /\ SchoolModel_step

NextAgent == ConstructTrial \/ ObservedStep \/ ActivateObserved \/ StepReturn

SpecAgent == InitAgent /\ [][NextAgent]_vars

\* ------------------------------------------------------------------ claims
Constructed == pc \in {"idle", "stepping"}

DroppedOut(ag) == {a \in DOMAIN ag : ag[a].status = "Dropped Out"}

Last(s) == s[Len(s)]

\* C1: once an agent's status is 'Dropped Out', every later step leaves its
\* status 'Dropped Out' and its performance at the same value.
C1_DroppedOutIsFinal ==
    [][\A a \in DOMAIN agents :
          agents[a].status = "Dropped Out"
              => /\ a \in DOMAIN agents'
                 /\ agents'[a].status = "Dropped Out"
                 /\ agents'[a].performance = agents[a].performance]_vars

\* A round has activated every agent, some of them dropped out before it began.
C1_Witness ==
    /\ pc = "stepping"
    /\ queue = <<>>
    /\ steps = 2
    /\ Exact(Last(model_vars).total) # Zero
    /\ \A a \in DOMAIN agents : invoked[a] = 1

\* C2: in every reachable state every agent's performance lies in [0,100].
C2_PerformanceInRange ==
    \A a \in DOMAIN agents :
        agents[a].performance >= 0 /\ agents[a].performance <= 100

\* Steps have clamped one agent at the lower end and one at the upper end.
C2_Witness ==
    /\ steps >= 1
    /\ \E a, b \in DOMAIN agents :
          agents[a].performance = 0 /\ agents[b].performance = 100

\* C3: the record a step() call collects has 'Total Dropout Rate' equal to
\* 100 x (number of agents then 'Dropped Out') / N, N the constructor argument.
C3_TotalDropoutRate ==
    (pc = "stepping" /\ \A a \in DOMAIN agents : invoked[a] = 0)
        => Exact(Last(model_vars).total)
               = Rat(100 * Cardinality(DroppedOut(agents)), params.N)

\* A record has just been collected with some but not all agents dropped out.
C3_Witness ==
    /\ pc = "stepping"
    /\ \A a \in DOMAIN agents : invoked[a] = 0
    /\ DroppedOut(agents) # {}
    /\ DroppedOut(agents) # DOMAIN agents

\* Number of agents of a tier.
TierPopulation(ag, ses_level) == Cardinality({a \in DOMAIN ag : ag[a].ses = ses_level})

\* Sum over the tiers of population x per-tier rate, divided by N.
WeightedTierRate(ag, n) ==
    LET part(t) == RatMul(Rat(TierPopulation(ag, t), 1),
                          Exact(get_dropout_by_ses(ag, t, 0)))
    IN  RatMul(RatAdd(RatAdd(part(LOW_SES), part(MEDIUM_SES)), part(HIGH_SES)),
               Rat(1, n))

\* C4: in every state of a constructed model the three tiers hold all N
\* agents and their population-weighted rates reconstruct get_dropout_rate().
C4_TierRatesReconstructTotal ==
    Constructed =>
        /\ TierPopulation(agents, LOW_SES) + TierPopulation(agents, MEDIUM_SES)
               + TierPopulation(agents, HIGH_SES) = params.N
        /\ WeightedTierRate(agents, params.N)
               = Exact(get_dropout_rate(agents, n_agents, 0))

\* Two tiers have different, nonzero dropout rates.
C4_Witness ==
    /\ Constructed
    /\ Exact(get_dropout_by_ses(agents, LOW_SES, 0)) # Zero
    /\ Exact(get_dropout_by_ses(agents, MEDIUM_SES, 0)) # Zero
    /\ get_dropout_by_ses(agents, LOW_SES, 0) # get_dropout_by_ses(agents, MEDIUM_SES, 0)
    /\ Exact(get_dropout_by_ses(agents, HIGH_SES, 0)) = Zero

\* C5: models constructed with the same parameters and the same seed and
\* stepped the same number of times produce the same metrics sequence: the
\* trials run_simulation has finished all hold the same model_vars, and the
\* running trial's records agree with theirs.
C5_SameSeedSameMetrics ==
    /\ \A i, j \in DOMAIN all_trials_data :
          /\ Len(all_trials_data[i]) = Len(all_trials_data[j])
          /\ \A k \in DOMAIN all_trials_data[i] :
                all_trials_data[i][k].row = all_trials_data[j][k].row
    /\ \A i \in DOMAIN all_trials_data :
          \A k \in DOMAIN model_vars : model_vars[k] = all_trials_data[i][k].row

\* Every rate of a record is 0.
ZeroRates(r) ==
    /\ r.total = Double(Zero, 0)
    /\ r.low = Double(Zero, 0)
    /\ r.medium = Double(Zero, 0)
    /\ r.high = Double(Zero, 0)

\* C6: the record of the k-th step() call is collected before that call's
\* round of agent updates: it holds the reporter values after k-1 rounds, the
\* first record has every rate 0, and the last round is in no record.
C6_CollectBeforeRound ==
    /\ Len(model_vars) = Len(round_metrics) + (IF pc = "stepping" THEN 1 ELSE 0)
    /\ Len(model_vars) >= 1 => ZeroRates(model_vars[1])
    /\ \A k \in 2..Len(model_vars) : model_vars[k] = round_metrics[k - 1]

\* Two calls have returned; the second record shows the dropouts of the first
\* round, and the dropouts of the second round differ from it.
C6_Witness ==
    /\ pc = "idle"
    /\ steps = 2
    /\ Exact(model_vars[2].total) # Zero
    /\ round_metrics[2].total # model_vars[2].total

\* C7: the step count is 0 after construction and grows by exactly 1 per
\* step() call; after n calls it is n and the history holds n records, the
\* earlier ones unchanged by later calls.
C7_StepCount ==
    [][/\ (pc = "new" /\ pc' = "idle") => (steps' = 0 /\ model_vars' = <<>>)
       /\ (pc = "idle" /\ pc' = "stepping") => steps' = steps + 1
       /\ (pc = "stepping") => steps' = steps
       /\ (pc' = "idle") => (steps' = Len(round_metrics') /\ Len(model_vars') = steps')
       /\ Constructed =>
             \A k \in DOMAIN model_vars :
                 k \in DOMAIN model_vars' /\ model_vars'[k] = model_vars[k]]_vars

\* Two calls have returned and left two different records.
C7_Witness ==
    /\ pc = "idle"
    /\ steps = 2
    /\ Len(model_vars) = 2
    /\ model_vars[1] # model_vars[2]

\* C8: a step() call runs StudentAgent.step of each of the N agents exactly
\* once, dropped-out agents included, in an order that is a permutation of
\* the agents; the model never stops by itself.
C8_EveryAgentOncePerStep ==
    Constructed =>
        /\ running
        /\ DOMAIN invoked = Nodes(params.N)
        /\ \A a \in Nodes(params.N) :
              invoked[a] = IF pc = "stepping" /\ a \in Range(queue) THEN 0
                           ELSE IF steps = 0 THEN 0 ELSE 1
        /\ Cardinality(Range(queue)) = Len(queue)
        /\ (pc = "idle" /\ steps < MaxSteps /\ DroppedOut(agents) = DOMAIN agents)
               => ENABLED SchoolModel_step

\* Every agent had dropped out when the second call began, and the call has
\* still activated each of them.
C8_Witness ==
    /\ pc = "stepping"
    /\ queue = <<>>
    /\ steps = 2
    /\ Exact(Last(model_vars).total) = Rat(100, 1)
    /\ \A a \in DOMAIN agents : invoked[a] = 1

\* The 40%/40%/20% proportions give integer tier counts (which then sum to N).
IntegerTiers(n) == (4 * n) % 10 = 0 /\ (2 * n) % 10 = 0

\* C9: construction with an N whose 40/40/20 tier counts are not integers
\* fails with InvalidParameter; when construction succeeds there are exactly
\* N agents, each in one tier, 0.4N Low, 0.4N Medium and 0.2N High.
C9_TierCountsOrInvalidParameter ==
    /\ (pc # "new" /\ ~IntegerTiers(params.N))
           => (pc = "failed" /\ error = "InvalidParameter")
    /\ Constructed =>
          /\ DOMAIN agents = Nodes(params.N)
          /\ \A a \in DOMAIN agents : agents[a].ses \in {LOW_SES, MEDIUM_SES, HIGH_SES}
          /\ 10 * TierPopulation(agents, LOW_SES) = 4 * params.N
          /\ 10 * TierPopulation(agents, MEDIUM_SES) = 4 * params.N
          /\ 10 * TierPopulation(agents, HIGH_SES) = 2 * params.N

\* Number of edges of a graph without self-loops.
RECURSIVE DegreeSum(_, _)
DegreeSum(adj, u) ==
    IF u \notin DOMAIN adj THEN 0 ELSE degree(adj, u) + DegreeSum(adj, u + 1)

\* N nodes, no self-loop, undirected, and every edge the generator placed is
\* a distinct pair: N * (k // 2) of them, or all pairs when k = N.
SimpleGraph(adj, n, k) ==
    /\ DOMAIN adj = Nodes(n)
    /\ \A u \in Nodes(n) : adj[u] \subseteq Nodes(n) /\ u \notin adj[u]
    /\ \A u, v \in Nodes(n) : v \in adj[u] <=> u \in adj[v]
    /\ DegreeSum(adj, 0) = IF k = n THEN n * (n - 1) ELSE 2 * n * (k \div 2)

\* C10: construction with k_degree odd or >= N fails with InvalidParameter;
\* with k_degree even and < N the network is a simple graph on N nodes.
C10_OddOrLargeDegreeRejected ==
    /\ (pc # "new" /\ (params.k_degree % 2 = 1 \/ params.k_degree >= params.N))
           => (pc = "failed" /\ error = "InvalidParameter")
    /\ (Constructed /\ params.k_degree % 2 = 0 /\ params.k_degree < params.N)
           => SimpleGraph(G, params.N, params.k_degree)

\* The p_drop StudentAgent.step computes on the inputs of the observed step
\* (the performance after the update, the peer_influence_score, the model's
\* base_dropout_rate and peer_influence_weight) under a financial_aid_policy,
\* rounded to the side of the observed one: the product with 0.6 keeps the
\* sign of the sum it multiplies.
ObservedPDrop(aid) ==
    LET a == step_locals.agent
    IN  p_drop([params EXCEPT !.financial_aid_policy = aid], agents[a].performance,
               agents[a].ses, step_locals.score, step_locals.p_drop.off)

\* C11: on the inputs of any agent step, the p_drop of a Low-SES agent with
\* financial_aid_policy=True is at most its p_drop with
\* financial_aid_policy=False, and for a Medium- or High-SES agent the two
\* are equal.
C11_AidNeverRaisesPDrop ==
    (Constructed /\ step_locals.drew) =>
        /\ step_locals.p_drop = ObservedPDrop(params.financial_aid_policy)
        /\ IF agents[step_locals.agent].ses = LOW_SES
           THEN DoubleLeq(ObservedPDrop(TRUE), ObservedPDrop(FALSE))
           ELSE ObservedPDrop(TRUE) = ObservedPDrop(FALSE)

\* C11 as amended: for a Low-SES agent the p_drop with financial aid is the
\* p_drop without it times (1 - FINANCIAL_AID_EFFECTIVENESS), up to rounding,
\* so it is below the unaided one when that is positive and above it when that
\* is negative; every draw that drops the agent out with aid drops it out
\* without aid; for a Medium- or High-SES agent the two p_drop are equal.
C11_AidScalesPDrop ==
    (Constructed /\ step_locals.drew) =>
        LET aided == ObservedPDrop(TRUE)
            unaided == ObservedPDrop(FALSE)
        IN  /\ step_locals.p_drop = IF params.financial_aid_policy THEN aided ELSE unaided
            /\ IF agents[step_locals.agent].ses = LOW_SES
               THEN /\ Exact(aided) =
                          RatMul(Exact(unaided),
                                 Rat(1000 - FINANCIAL_AID_EFFECTIVENESS, 1000))
                    /\ RatLess(Zero, unaided) => DoubleLess(aided, unaided)
                    /\ RatLess(unaided, Zero) => DoubleLess(unaided, aided)
                    /\ \A u \in UniformDraws :
                          DoubleLess(Double(Rat(u, 1000), 0), aided)
                              => DoubleLess(Double(Rat(u, 1000), 0), unaided)
               ELSE aided = unaided

\* A Low-SES agent has made a step with a negative p_drop and stays, under
\* the weight of 1.5 without financial aid; with aid its p_drop is higher.
C11_Witness ==
    /\ Constructed
    /\ step_locals.drew
    /\ ~params.financial_aid_policy
    /\ agents[step_locals.agent].ses = LOW_SES
    /\ RatLess(step_locals.p_drop, Zero)
    /\ DoubleLess(step_locals.p_drop, ObservedPDrop(TRUE))
    /\ agents[step_locals.agent].status = "Attending"

\* Agent a, attending, makes the step this transition observes.
ObservedStepOf(a) ==
    /\ a \in DOMAIN agents
    /\ agents[a].status = "Attending"
    /\ invoked'[a] = invoked[a] + 1
    /\ step_locals'.agent = a
    /\ step_locals'.drew

\* base_dropout_rate + performance_risk x (1 - peer_influence_weight)
\*   + peer_influence_score x peer_influence_weight, with
\* performance_risk = max(0, 60 - performance) / 60, written out.
StatedPDrop(performance, score) ==
    LET shortfall == IF performance < PERFORMANCE_THRESHOLD
                     THEN PERFORMANCE_THRESHOLD - performance ELSE 0
    IN  RatAdd(RatAdd(Rat(params.base_dropout_rate, 1000),
                      RatMul(Rat(shortfall, PERFORMANCE_THRESHOLD),
                             Rat(1000 - params.peer_influence_weight, 1000))),
               RatMul(score, Rat(params.peer_influence_weight, 1000)))

\* StatedPDrop, times (1 - FINANCIAL_AID_EFFECTIVENESS) for a Low-SES agent
\* under financial_aid_policy.
StatedPDropWithAid(performance, score, ses) ==
    IF params.financial_aid_policy /\ ses = LOW_SES
    THEN RatMul(StatedPDrop(performance, score),
                Rat(1000 - FINANCIAL_AID_EFFECTIVENESS, 1000))
    ELSE StatedPDrop(performance, score)

\* The performance after the perturbation and the clamp to [0,100].
Perturbed(performance, fluctuation) ==
    LET x == performance + fluctuation
    IN  IF x < 0 THEN 0 ELSE IF x > 100 THEN 100 ELSE x

\* The step of agent a drops it out exactly when the draw u is below p, always
\* when p >= 1 and never when p <= 0.
DropsOutBelow(a, p) ==
    /\ agents'[a].status = "Dropped Out"
          <=> DoubleLess(Double(Rat(step_locals'.u, 1000), 0), p)
    /\ DoubleLeq(Double(Rat(1, 1), 0), p) => agents'[a].status = "Dropped Out"
    /\ DoubleLeq(p, Double(Zero, 0)) => agents'[a].status = "Attending"

\* C12: the step of an attending agent sets its performance to the perturbed
\* and clamped value and drops the agent out exactly when the uniform draw u
\* is below p_drop = base_dropout_rate + performance_risk x (1 - weight) +
\* peer_influence_score x weight computed from that performance; p_drop >= 1
\* always drops the agent out and p_drop <= 0 never does.
C12_DropsOutBelowStatedPDrop ==
    [][\A a \in DOMAIN agents :
          ObservedStepOf(a) =>
              /\ agents'[a].performance =
                    Perturbed(agents[a].performance, step_locals'.fluctuation)
              /\ DropsOutBelow(a, Double(StatedPDrop(agents'[a].performance,
                                                     step_locals'.score),
                                         IF p_drop_unrounded(params,
                                                             agents'[a].performance,
                                                             step_locals'.score, FALSE)
                                         THEN 0 ELSE step_locals'.p_drop.off))]_vars

\* C12 as amended: the same with the p_drop that is multiplied by
\* (1 - FINANCIAL_AID_EFFECTIVENESS) for a Low-SES agent under
\* financial_aid_policy; it is the p_drop the step computes.
C12_DropsOutBelowPDrop ==
    [][\A a \in DOMAIN agents :
          ObservedStepOf(a) =>
              /\ agents'[a].performance =
                    Perturbed(agents[a].performance, step_locals'.fluctuation)
              /\ Exact(step_locals'.p_drop) =
                    StatedPDropWithAid(agents'[a].performance, step_locals'.score,
                                       agents[a].ses)
              /\ DropsOutBelow(a, step_locals'.p_drop)]_vars

\* A Low-SES agent under financial aid has drawn a u below the undiscounted
\* sum and not below its p_drop, and still attends.
C12_Witness ==
    /\ Constructed
    /\ step_locals.drew
    /\ params.financial_aid_policy
    /\ agents[step_locals.agent].ses = LOW_SES
    /\ agents[step_locals.agent].status = "Attending"
    /\ RatLess(Rat(step_locals.u, 1000),
               StatedPDrop(agents[step_locals.agent].performance, step_locals.score))
    /\ RatLess(step_locals.p_drop, Rat(step_locals.u, 1000))
    /\ RatLess(Zero, step_locals.p_drop)

\* The network neighbours of agent a, a itself excluded.
NeighborsOf(a) == {v \in DOMAIN G : v \in G[a]} \ {a}

\* The neighbours of a whose status is 'Dropped Out' in the current state.
DroppedOutNeighbors(a) == {v \in NeighborsOf(a) : agents[v].status = "Dropped Out"}

\* C13: the peer_influence_score of an attending agent's step is 0 without
\* neighbours and otherwise the number of its neighbours that are 'Dropped
\* Out' when the agent is activated over the number of its neighbours: a
\* neighbour already activated in this step() call counts if it has dropped
\* out, one still to be activated counts only if it dropped out in an earlier
\* call; and that score is the one the p_drop of the step is computed from.
C13_PeerScoreAtActivation ==
    [][\A a \in DOMAIN agents :
          ObservedStepOf(a) =>
              /\ step_locals'.score =
                    IF NeighborsOf(a) = {} THEN Zero
                    ELSE Rat(Cardinality(DroppedOutNeighbors(a)),
                             Cardinality(NeighborsOf(a)))
              /\ \A v \in NeighborsOf(a) :
                    /\ (invoked[v] = 1 /\ agents'[v].status = "Dropped Out")
                          => v \in DroppedOutNeighbors(a)
                    /\ (invoked[v] = 0 /\ v \in DroppedOutNeighbors(a)) => steps > 1
              /\ Exact(step_locals'.p_drop) =
                    StatedPDropWithAid(agents'[a].performance, step_locals'.score,
                                       agents[a].ses)]_vars

\* In the first step() call an agent has counted a neighbour that dropped out
\* earlier in the same call, while another neighbour was still to be
\* activated, and has dropped out on a draw that is not below the p_drop of a
\* score of 0: activated before that neighbour it would still attend.
C13_Witness ==
    /\ pc = "stepping"
    /\ steps = 1
    /\ step_locals.drew
    /\ RatLess(Zero, step_locals.score)
    /\ \E v \in NeighborsOf(step_locals.agent) : invoked[v] = 0
    /\ agents[step_locals.agent].status = "Dropped Out"
    /\ DoubleLess(Double(Rat(step_locals.u, 1000), 0), step_locals.p_drop)
    /\ \A rounding \in Roundings :
          ~DoubleLess(Double(Rat(step_locals.u, 1000), 0),
                      p_drop(params, agents[step_locals.agent].performance,
                             agents[step_locals.agent].ses, Zero, rounding))

====
